---------------------------- MODULE Spec2Model ----------------------------
(***************************************************************************)
(* Model of src/models/hsmm.py: maximum-likelihood estimation of the       *)
(* parameters of a hidden semi-Markov model from labelled chains, and the  *)
(* orchestrator train_hsmm that sequences the estimation stages.           *)
(*                                                                         *)
(* Conventions.                                                            *)
(*  - A numpy vector indexed by word w in 0..V-1 is the sequence whose     *)
(*    element w+1 is entry w; a matrix is a sequence of rows.              *)
(*  - A float is the rational [num, den] in lowest terms with den > 0;     *)
(*    den = 0 encodes the IEEE results of a numpy division by zero:        *)
(*    0/0 is nan, 1/0 is inf, -1/0 is -inf.                                *)
(*  - A call returns [err, val]: err = "" and the value, or the name of    *)
(*    the exception raised and val = <<>>.                                 *)
(*  - A frame is a 3-dimensional feature vector; the corpora enumerated    *)
(*    give every frame distinct coordinates <<chain, position, index>>.    *)
(***************************************************************************)
EXTENDS Integers, Sequences, FiniteSets, TLC

VARIABLES
    data,             \* the training corpus: a sequence of chains
    vocab_size,       \* the vocabulary size
    pc,               \* position of the caller / of train_hsmm
    call,             \* name of the function called directly ("" if none)
    ret,              \* what the call returned: [err, val]
    verbose,          \* train_hsmm's verbose argument
    pkl_param,        \* train_hsmm's pkl_param argument ("" is None)
    word_init_probs,  \* train_hsmm's local
    word_trans_probs, \* train_hsmm's local
    word_dur_params,  \* train_hsmm's local
    train_data_gmm,   \* train_hsmm's local
    word_gmms,        \* train_hsmm's local
    events,           \* what happened, in order: notices printed, stages entered
    storage,          \* durable storage: what each file holds
    failedAt          \* the stage whose exception ended the run ("" if none)

vars == <<data, vocab_size, pc, call, ret, verbose, pkl_param, word_init_probs,
          word_trans_probs, word_dur_params, train_data_gmm, word_gmms,
          events, storage, failedAt>>

(***************************************************************************)
(* Bounds of the corpora enumerated.                                       *)
(***************************************************************************)
EstMaxChains == 2
EstMaxWords == 3
EstMaxFrames == 4
RunMaxChains == 2
RunMaxWords == 2
RunMaxFrames == 2
VocabSizes == {2, 3}

(***************************************************************************)
(* Floats.                                                                 *)
(***************************************************************************)
Abs(x) == IF x < 0 THEN -x ELSE x

Sign(x) == IF x < 0 THEN -1 ELSE IF x > 0 THEN 1 ELSE 0

RECURSIVE Gcd(_, _)
Gcd(a, b) == IF b = 0 THEN a ELSE Gcd(b, a % b)

NaN == [num |-> 0, den |-> 0]

Num(n) == [num |-> n, den |-> 1]

\* numpy true division of the float n by the float d (no exception is raised:
\* a zero divisor gives nan or +-inf and a RuntimeWarning).
Div(n, d) ==
    IF d = 0 THEN [num |-> Sign(n), den |-> 0]
    ELSE LET g == Gcd(Abs(n), Abs(d))
             s == IF d < 0 THEN -1 ELSE 1
         IN  [num |-> (s * n) \div g, den |-> (s * d) \div g]

IsFinite(x) == x.den # 0

FracAdd(a, b) ==
    IF a.den = 0 /\ b.den = 0 THEN (IF a.num = b.num THEN a ELSE NaN)
    ELSE IF a.den = 0 THEN a
    ELSE IF b.den = 0 THEN b
    ELSE Div(a.num * b.den + b.num * a.den, a.den * b.den)

RECURSIVE FracSum(_)
FracSum(s) == IF s = <<>> THEN Num(0) ELSE FracAdd(Head(s), FracSum(Tail(s)))

RECURSIVE Flatten(_)
Flatten(ss) == IF ss = <<>> THEN <<>> ELSE Head(ss) \o Flatten(Tail(ss))

Ok(v) == [err |-> "", val |-> v]

Raise(e) == [err |-> e, val |-> <<>>]

Zeros(n) == [i \in 1..n |-> 0]

(***************************************************************************)
(* Corpora. A shape is a sequence of chains, each a sequence of            *)
(* [w, len]: the word and the number of frames of its segment.  The        *)
(* corpora enumerated satisfy the data model: len(state_seq) = len(obs)    *)
(* and every word index lies in [0, vocab_size).                           *)
(***************************************************************************)
RECURSIVE ChainShapes(_, _, _)
ChainShapes(V, n, f) ==
    {<<>>} \cup
    (IF n = 0 THEN {}
     ELSE UNION {UNION {{<<[w |-> w, len |-> l]>> \o rest :
                            rest \in ChainShapes(V, n - 1, f - l)} :
                        l \in 0..f} : w \in 0..(V - 1)})

RECURSIVE SumLen(_)
SumLen(ch) == IF ch = <<>> THEN 0 ELSE Head(ch).len + SumLen(Tail(ch))

RECURSIVE CorpusShapes(_, _, _, _)
CorpusShapes(V, c, n, f) ==
    {<<>>} \cup
    (IF c = 0 THEN {}
     ELSE UNION {{<<ch>> \o rest :
                     rest \in CorpusShapes(V, c - 1, n - Len(ch), f - SumLen(ch))} :
                 ch \in ChainShapes(V, n, f)})

MkChain(c, ch) ==
    [state_seq |-> [p \in 1..Len(ch) |-> ch[p].w],
     obs |-> [p \in 1..Len(ch) |-> [k \in 1..ch[p].len |-> <<c, p, k>>]]]

MkData(shape) == [c \in 1..Len(shape) |-> MkChain(c, shape[c])]

Corpora(V, c, n, f) == {MkData(s) : s \in CorpusShapes(V, c, n, f)}

(***************************************************************************)
(* train_word_init_probs                                                   *)
(***************************************************************************)
\* The loop of lines 15-19 from chain i on. `w in word_init_counts` is numpy's
\* membership test: some ENTRY of the array equals the number w.
RECURSIVE InitCountsLoop(_, _, _)
InitCountsLoop(d, i, counts) ==
    IF i > Len(d) THEN Ok(counts)
    ELSE IF Len(d[i].state_seq) = 0 THEN Raise("IndexError")
    ELSE LET w == d[i].state_seq[1]
         IN  InitCountsLoop(d, i + 1,
                 IF \E k \in 1..Len(counts) : counts[k] = w
                 THEN [counts EXCEPT ![w + 1] = 1]
                 ELSE [counts EXCEPT ![w + 1] = @ + 1])

train_word_init_probs(d, V) ==
    LET r == InitCountsLoop(d, 1, Zeros(V))
    IN  IF r.err # "" THEN r
        ELSE Ok([k \in 1..V |-> Div(r.val[k], V)])

(***************************************************************************)
(* train_word_trans_probs                                                  *)
(***************************************************************************)
\* zip(state_seq[:-1], state_seq[1:]) from pair j on: line 29-30.
RECURSIVE ChainBigramLoop(_, _, _)
ChainBigramLoop(seq, j, counts) ==
    IF j + 1 > Len(seq) THEN counts
    ELSE ChainBigramLoop(seq, j + 1,
             [counts EXCEPT ![seq[j] + 1][seq[j + 1] + 1] = @ + 1])

\* The loop of lines 28-31 from chain i on: [counts, tot].
RECURSIVE BigramLoop(_, _, _, _)
BigramLoop(d, i, counts, tot) ==
    IF i > Len(d) THEN [counts |-> counts, tot |-> tot]
    ELSE BigramLoop(d, i + 1, ChainBigramLoop(d[i].state_seq, 1, counts),
                    tot + (Len(d[i].state_seq) - 1))

BigramCounts(d, V) == BigramLoop(d, 1, [a \in 1..V |-> Zeros(V)], 0)

\* Mutant: each row divided by its own total (a row-stochastic matrix).
train_word_trans_probs_RowNorm(d, V) ==
    LET r == BigramCounts(d, V)
        RowTot(a) == FracSum([b \in 1..V |-> Num(r.counts[a][b])]).num
    IN  Ok([a \in 1..V |-> [b \in 1..V |-> Div(r.counts[a][b], RowTot(a))]])

train_word_trans_probs(d, V) ==
    LET r == BigramCounts(d, V)
    IN  Ok([a \in 1..V |-> [b \in 1..V |-> Div(r.counts[a][b], r.tot)]])

(***************************************************************************)
(* train_word_durations                                                    *)
(***************************************************************************)
\* Mutant: `word_durations[word] = duration` for `+=`.
RECURSIVE ChainDurLoop_Assign(_, _, _)
ChainDurLoop_Assign(chain, idx, acc) ==
    IF acc.err # "" \/ idx > Len(chain.state_seq) THEN acc
    ELSE IF idx > Len(chain.obs) THEN Raise("IndexError")
    ELSE LET word == chain.state_seq[idx]
             duration == Len(chain.obs[idx])
         IN  ChainDurLoop_Assign(chain, idx + 1,
                 Ok([counts |-> [acc.val.counts EXCEPT ![word + 1] = @ + 1],
                     durs |-> [acc.val.durs EXCEPT ![word + 1] = duration]]))

\* The inner loop of lines 41-45 from position idx on: acc = [counts, durs].
RECURSIVE ChainDurLoop(_, _, _)
ChainDurLoop(chain, idx, acc) ==
    IF acc.err # "" \/ idx > Len(chain.state_seq) THEN acc
    ELSE IF idx > Len(chain.obs) THEN Raise("IndexError")
    ELSE LET word == chain.state_seq[idx]
             duration == Len(chain.obs[idx])
         IN  ChainDurLoop(chain, idx + 1,
                 Ok([counts |-> [acc.val.counts EXCEPT ![word + 1] = @ + 1],
                     durs |-> [acc.val.durs EXCEPT ![word + 1] = @ + duration]]))

RECURSIVE DurLoop(_, _, _)
DurLoop(d, i, acc) ==
    IF acc.err # "" \/ i > Len(d) THEN acc
    ELSE DurLoop(d, i + 1, ChainDurLoop(d[i], 1, acc))

train_word_durations(d, V) ==
    LET r == DurLoop(d, 1, Ok([counts |-> Zeros(V), durs |-> Zeros(V)]))
    IN  IF r.err # "" THEN r
        ELSE Ok([k \in 1..V |-> Div(r.val.durs[k], r.val.counts[k])])

(***************************************************************************)
(* gather_gmm_data                                                         *)
(***************************************************************************)
\* Mutant: `segments[word].insert(0, ...)` for `append`.
RECURSIVE ChainSegLoop_Prepend(_, _, _)
ChainSegLoop_Prepend(chain, idx, acc) ==
    IF acc.err # "" \/ idx > Len(chain.state_seq) THEN acc
    ELSE IF idx > Len(chain.obs) THEN Raise("IndexError")
    ELSE LET word == chain.state_seq[idx]
         IN  ChainSegLoop_Prepend(chain, idx + 1,
                 Ok([acc.val EXCEPT ![word + 1] = <<chain.obs[idx]>> \o @]))

\* Lines 54-55 from position idx on: segs[word+1] is the list segments[word].
RECURSIVE ChainSegLoop(_, _, _)
ChainSegLoop(chain, idx, acc) ==
    IF acc.err # "" \/ idx > Len(chain.state_seq) THEN acc
    ELSE IF idx > Len(chain.obs) THEN Raise("IndexError")
    ELSE LET word == chain.state_seq[idx]
         IN  ChainSegLoop(chain, idx + 1,
                 Ok([acc.val EXCEPT ![word + 1] = Append(@, chain.obs[idx])]))

RECURSIVE SegLoop(_, _, _)
SegLoop(d, i, acc) ==
    IF acc.err # "" \/ i > Len(d) THEN acc
    ELSE SegLoop(d, i + 1, ChainSegLoop(d[i], 1, acc))

\* np.atleast_2d(np.asarray(seg)): the list of the frames of a segment is a
\* (len, dim) array; the empty list is a (0,) array, which atleast_2d makes (1, 0).
AsRows(seg) == IF Len(seg) = 0 THEN << <<>> >> ELSE seg

\* Mutant: a word without segments gets an empty matrix instead of ValueError.
VStack_EmptyMatrix(segs) ==
    LET arrs == [i \in 1..Len(segs) |-> AsRows(segs[i])]
    IN  IF Len(segs) = 0 THEN Ok(<<>>)
        ELSE IF \E i \in 1..Len(arrs) : Len(arrs[i][1]) # Len(arrs[1][1])
             THEN Raise("ValueError")
        ELSE Ok(Flatten(arrs))

\* np.vstack over the segments of one word: no array at all, or arrays whose
\* numbers of columns differ, raise ValueError.
VStack(segs) ==
    LET arrs == [i \in 1..Len(segs) |-> AsRows(segs[i])]
    IN  IF Len(segs) = 0 THEN Raise("ValueError")
        ELSE IF \E i \in 1..Len(arrs) : Len(arrs[i][1]) # Len(arrs[1][1])
             THEN Raise("ValueError")
        ELSE Ok(Flatten(arrs))

\* Lines 58-60 from word w (index w+1) on.
RECURSIVE StackLoop(_, _, _)
StackLoop(segs, k, out) ==
    IF k > Len(segs) THEN Ok(out)
    ELSE LET m == VStack(segs[k])
         IN  IF m.err # "" THEN m ELSE StackLoop(segs, k + 1, Append(out, m.val))

gather_gmm_data(d, V) ==
    LET r == SegLoop(d, 1, Ok([k \in 1..V |-> <<>>]))
    IN  IF r.err # "" THEN r ELSE StackLoop(r.val, 1, <<>>)

(***************************************************************************)
(* Events: what train_hsmm prints and which calls it makes, in order.      *)
(***************************************************************************)
Ev(kind, what, idx) == [kind |-> kind, what |-> what, idx |-> idx]

\* `if verbose: print text`
Notice(vb, text, idx) == IF vb THEN <<Ev("print", text, idx)>> ELSE <<>>

StageEv(name) == Ev("stage", name, -1)

RaiseEv(name) == Ev("raise", name, -1)

(***************************************************************************)
(* train_word_gmms. GMM.fit belongs to scikit-learn: whether the fit of a  *)
(* word's matrix raises is the environment's choice, failIdx (0: no fit    *)
(* raises; k: the fit of word k-1 is the first to raise).                  *)
(***************************************************************************)
DefaultComponents == 6

\* Mutant: the exception of a fit is caught and the loop goes on.
RECURSIVE GmmLoop_Swallow(_, _, _, _, _, _, _)
GmmLoop_Swallow(td, K, vb, failIdx, idx, gmms, out) ==
    IF idx > Len(td) THEN [err |-> "", val |-> gmms, out |-> out]
    ELSE LET out1 == out \o Notice(vb, "Training GMM for word %d", idx - 1)
                         \o <<Ev("fit", "GMM.fit", idx - 1)>>
         IN  IF failIdx = idx
             THEN GmmLoop_Swallow(td, K, vb, failIdx, idx + 1, gmms,
                                  Append(out1, RaiseEv("train_word_gmms")))
             ELSE GmmLoop_Swallow(td, K, vb, failIdx, idx + 1,
                                  [gmms EXCEPT ![idx].n_samples = Len(td[idx])], out1)

\* Lines 68-72 from word idx-1 on.
RECURSIVE GmmLoop(_, _, _, _, _, _, _)
GmmLoop(td, K, vb, failIdx, idx, gmms, out) ==
    IF idx > Len(td) THEN [err |-> "", val |-> gmms, out |-> out]
    ELSE LET out1 == out \o Notice(vb, "Training GMM for word %d", idx - 1)
                         \o <<Ev("fit", "GMM.fit", idx - 1)>>
         IN  IF failIdx = idx
             THEN [err |-> "ValueError", val |-> <<>>,
                   out |-> Append(out1, RaiseEv("train_word_gmms"))]
             ELSE GmmLoop(td, K, vb, failIdx, idx + 1,
                          [gmms EXCEPT ![idx].n_samples = Len(td[idx])], out1)

train_word_gmms(td, K, vb, failIdx) ==
    GmmLoop(td, K, vb, failIdx, 1,
            [i \in 1..Len(td) |-> [n_components |-> K, n_samples |-> -1]], <<>>)

(***************************************************************************)
(* Durable storage. A file is absent, holds older content, holds a whole   *)
(* pickle of an object, or holds the truncated pickle that a failed dump   *)
(* leaves behind.                                                          *)
(***************************************************************************)
Files == {"params.pkl", "hsmm.pkl"}

Absent == [kind |-> "absent", complete |-> FALSE, content |-> <<>>]

OlderFile == [kind |-> "older", complete |-> TRUE, content |-> <<>>]

Pickled(kind, obj) == [kind |-> kind, complete |-> TRUE, content |-> <<obj>>]

Truncated(kind) == [kind |-> kind, complete |-> FALSE, content |-> <<>>]

\* What the file system does to a write is the environment's choice.
IoOutcomes == {"ok", "open_fails", "dump_fails"}

\* `with open(path, "wb") as f: pickle.dump(obj, f)`: open raises and leaves
\* the path as it was; or open creates or truncates the file and the dump
\* raises, leaving a truncated pickle; or the whole pickle is written.
PickleToFile(path, kind, obj, io) ==
    IF io = "open_fails" THEN [err |-> "IOError", writes |-> <<>>]
    ELSE IF io = "dump_fails"
         THEN [err |-> "IOError",
               writes |-> <<[file |-> path, state |-> Truncated(kind)]>>]
    ELSE [err |-> "", writes |-> <<[file |-> path, state |-> Pickled(kind, obj)]>>]

RECURSIVE ApplyWrites(_, _)
ApplyWrites(fs, ws) ==
    IF ws = <<>> THEN fs
    ELSE ApplyWrites([fs EXCEPT ![Head(ws).file] = Head(ws).state], Tail(ws))

WriteEvents(ws) == [i \in 1..Len(ws) |-> [kind |-> "write", what |-> ws[i].file, idx |-> -1]]

(***************************************************************************)
(* build_hsmm and save_params. The pyhsmm constructors belong to the       *)
(* environment: libOk says whether they raise.                             *)
(***************************************************************************)
\* Mutant: line 108 is missing, the initial weights stay a default (uniform).
build_hsmm_DefaultInit(ip, tp, dp, gmms, V, out_fn, libOk, io) ==
    LET hsmm == [init_state_weights |-> [k \in 1..V |-> Div(1, V)],
                 trans_matrix |-> tp, dur_lmbdas |-> dp, obs_distns |-> gmms]
        w == PickleToFile(out_fn, "hsmm", hsmm, io)
    IN  IF ~libOk THEN [err |-> "ValueError", val |-> <<>>, writes |-> <<>>]
        ELSE IF out_fn = "" THEN [err |-> "", val |-> hsmm, writes |-> <<>>]
        ELSE IF w.err # "" THEN [err |-> w.err, val |-> <<>>, writes |-> w.writes]
        ELSE [err |-> "", val |-> hsmm, writes |-> w.writes]

build_hsmm(ip, tp, dp, gmms, V, out_fn, libOk, io) ==
    LET hsmm == [init_state_weights |-> ip, trans_matrix |-> tp,
                 dur_lmbdas |-> dp, obs_distns |-> gmms]
        w == PickleToFile(out_fn, "hsmm", hsmm, io)
    IN  IF ~libOk THEN [err |-> "ValueError", val |-> <<>>, writes |-> <<>>]
        ELSE IF out_fn = "" THEN [err |-> "", val |-> hsmm, writes |-> <<>>]
        ELSE IF w.err # "" THEN [err |-> w.err, val |-> <<>>, writes |-> w.writes]
        ELSE [err |-> "", val |-> hsmm, writes |-> w.writes]

save_params(ip, tp, dp, gmms, out_file, io) ==
    LET params == [word_init_probs |-> ip, word_trans_probs |-> tp,
                   word_dur_params |-> dp, word_gmms |-> gmms]
    IN  PickleToFile(out_file, "params", params, io)

(***************************************************************************)
(* Initial states.                                                         *)
(***************************************************************************)
InitRest ==
    /\ pc = "idle"
    /\ call = ""
    /\ ret = Ok(<<>>)
    /\ verbose = FALSE
    /\ pkl_param = ""
    /\ word_init_probs = <<>>
    /\ word_trans_probs = <<>>
    /\ word_dur_params = <<>>
    /\ train_data_gmm = <<>>
    /\ word_gmms = <<>>
    /\ events = <<>>
    /\ failedAt = ""

Init ==
    /\ vocab_size \in VocabSizes
    /\ data \in Corpora(vocab_size, RunMaxChains, RunMaxWords, RunMaxFrames)
    /\ storage \in [Files -> {Absent, OlderFile}]
    /\ InitRest

\* The corpora over three words are enumerated one size smaller than those
\* over two, which keeps their number within reach.
InitEst ==
    /\ \/ /\ vocab_size = 2
          /\ data \in Corpora(2, EstMaxChains, EstMaxWords, EstMaxFrames)
       \/ /\ vocab_size = 3
          /\ data \in Corpora(3, EstMaxChains - 1, EstMaxWords - 1, EstMaxFrames - 1)
    /\ storage = [f \in Files |-> Absent]
    /\ InitRest

input == <<data, vocab_size>>

args == <<verbose, pkl_param>>

locals == <<word_init_probs, word_trans_probs, word_dur_params, train_data_gmm,
            word_gmms>>

(***************************************************************************)
(* Direct calls of the estimators.                                         *)
(***************************************************************************)
Call_train_word_init_probs ==
    /\ pc = "idle"
    /\ call' = "train_word_init_probs"
    /\ ret' = train_word_init_probs(data, vocab_size)
    /\ pc' = "called"
    /\ UNCHANGED <<input, args, locals, events, storage, failedAt>>

Call_train_word_trans_probs ==
    /\ pc = "idle"
    /\ call' = "train_word_trans_probs"
    /\ ret' = train_word_trans_probs(data, vocab_size)
    /\ pc' = "called"
    /\ UNCHANGED <<input, args, locals, events, storage, failedAt>>

Call_train_word_durations ==
    /\ pc = "idle"
    /\ call' = "train_word_durations"
    /\ ret' = train_word_durations(data, vocab_size)
    /\ pc' = "called"
    /\ UNCHANGED <<input, args, locals, events, storage, failedAt>>

Call_gather_gmm_data ==
    /\ pc = "idle"
    /\ call' = "gather_gmm_data"
    /\ ret' = gather_gmm_data(data, vocab_size)
    /\ pc' = "called"
    /\ UNCHANGED <<input, args, locals, events, storage, failedAt>>

NextEst ==
    \/ Call_train_word_init_probs
    \/ Call_train_word_trans_probs
    \/ Call_train_word_durations
    \/ Call_gather_gmm_data

SpecEst == InitEst /\ [][NextEst]_vars

(***************************************************************************)
(* train_hsmm, one action per stage.  pc names the stage about to run.     *)
(***************************************************************************)
\* Mutant: a notice is printed before the duration stage too.
DurationNotice_Printed == Notice(verbose, "Computing word durations...", -1)

\* Line 151: what train_hsmm prints before train_word_durations: nothing.
DurationNotice == <<>>

\* Mutant: the persistence target is handed on to build_hsmm as out_fn.
AssemblyOutFn_PklParam == pkl_param

\* Line 167: the out_fn train_hsmm passes to build_hsmm: none (the default
\* of line 76, None).
AssemblyOutFn == ""

\* The exception of `stage` leaves train_hsmm: nothing catches it.
Propagate(stage, e) ==
    /\ pc' = "failed"
    /\ failedAt' = stage
    /\ ret' = Raise(e)

\* A caller calls train_hsmm(data, vocab_size, pkl_param=pk, verbose=vb).
Call_train_hsmm ==
    /\ pc = "idle"
    /\ \E vb \in BOOLEAN, pk \in {"", "params.pkl"} :
          /\ verbose' = vb
          /\ pkl_param' = pk
    /\ call' = "train_hsmm"
    /\ pc' = "init"
    /\ UNCHANGED <<input, ret, locals, events, storage, failedAt>>

\* Lines 144-146.
Stage_init ==
    /\ pc = "init"
    /\ LET r == train_word_init_probs(data, vocab_size)
           ev == events \o Notice(verbose, "Computing initial word probabilities...", -1)
                        \o <<StageEv("train_word_init_probs")>>
       IN  IF r.err # ""
           THEN /\ events' = Append(ev, RaiseEv("train_word_init_probs"))
                /\ Propagate("train_word_init_probs", r.err)
                /\ UNCHANGED word_init_probs
           ELSE /\ events' = ev
                /\ word_init_probs' = r.val
                /\ pc' = "trans"
                /\ UNCHANGED <<ret, failedAt>>
    /\ UNCHANGED <<input, args, call, word_trans_probs, word_dur_params,
                   train_data_gmm, word_gmms, storage>>

\* Lines 148-150.
Stage_trans ==
    /\ pc = "trans"
    /\ LET r == train_word_trans_probs(data, vocab_size)
           ev == events \o Notice(verbose, "Computing word transition probabilities...", -1)
                        \o <<StageEv("train_word_trans_probs")>>
       IN  IF r.err # ""
           THEN /\ events' = Append(ev, RaiseEv("train_word_trans_probs"))
                /\ Propagate("train_word_trans_probs", r.err)
                /\ UNCHANGED word_trans_probs
           ELSE /\ events' = ev
                /\ word_trans_probs' = r.val
                /\ pc' = "dur"
                /\ UNCHANGED <<ret, failedAt>>
    /\ UNCHANGED <<input, args, call, word_init_probs, word_dur_params,
                   train_data_gmm, word_gmms, storage>>

\* Line 151: no notice is printed.
Stage_dur ==
    /\ pc = "dur"
    /\ LET r == train_word_durations(data, vocab_size)
           ev == events \o DurationNotice \o <<StageEv("train_word_durations")>>
       IN  IF r.err # ""
           THEN /\ events' = Append(ev, RaiseEv("train_word_durations"))
                /\ Propagate("train_word_durations", r.err)
                /\ UNCHANGED word_dur_params
           ELSE /\ events' = ev
                /\ word_dur_params' = r.val
                /\ pc' = "gather"
                /\ UNCHANGED <<ret, failedAt>>
    /\ UNCHANGED <<input, args, call, word_init_probs, word_trans_probs,
                   train_data_gmm, word_gmms, storage>>

\* Lines 154-156.
Stage_gather ==
    /\ pc = "gather"
    /\ LET r == gather_gmm_data(data, vocab_size)
           ev == events \o Notice(verbose, "Gathering GMM training data...", -1)
                        \o <<StageEv("gather_gmm_data")>>
       IN  IF r.err # ""
           THEN /\ events' = Append(ev, RaiseEv("gather_gmm_data"))
                /\ Propagate("gather_gmm_data", r.err)
                /\ UNCHANGED train_data_gmm
           ELSE /\ events' = ev
                /\ train_data_gmm' = r.val
                /\ pc' = "fit"
                /\ UNCHANGED <<ret, failedAt>>
    /\ UNCHANGED <<input, args, call, word_init_probs, word_trans_probs,
                   word_dur_params, word_gmms, storage>>

\* Lines 159-161.
Stage_fit ==
    /\ pc = "fit"
    /\ \E failIdx \in 0..Len(train_data_gmm) :
          LET r == train_word_gmms(train_data_gmm, DefaultComponents, verbose, failIdx)
              ev == events \o Notice(verbose, "Training GMMs...", -1)
                           \o <<StageEv("train_word_gmms")>> \o r.out
          IN  /\ events' = ev
              /\ IF r.err # ""
                 THEN /\ Propagate("train_word_gmms", r.err)
                      /\ UNCHANGED word_gmms
                 ELSE /\ word_gmms' = r.val
                      /\ pc' = "persist"
                      /\ UNCHANGED <<ret, failedAt>>
    /\ UNCHANGED <<input, args, call, word_init_probs, word_trans_probs,
                   word_dur_params, train_data_gmm, storage>>

\* Lines 163-165.
Stage_persist ==
    /\ pc = "persist"
    /\ IF pkl_param = ""
       THEN /\ pc' = "build"
            /\ UNCHANGED <<events, storage, ret, failedAt>>
       ELSE \E io \in IoOutcomes :
               LET r == save_params(word_init_probs, word_trans_probs,
                                    word_dur_params, word_gmms, pkl_param, io)
                   ev == Append(events, StageEv("save_params")) \o WriteEvents(r.writes)
               IN  /\ storage' = ApplyWrites(storage, r.writes)
                   /\ IF r.err # ""
                      THEN /\ events' = Append(ev, RaiseEv("save_params"))
                           /\ Propagate("save_params", r.err)
                      ELSE /\ events' = ev
                           /\ pc' = "build"
                           /\ UNCHANGED <<ret, failedAt>>
    /\ UNCHANGED <<input, args, call, locals>>

\* Line 167: build_hsmm is called without out_fn.
Stage_build ==
    /\ pc = "build"
    /\ \E libOk \in BOOLEAN, io \in IoOutcomes :
          LET r == build_hsmm(word_init_probs, word_trans_probs, word_dur_params,
                              word_gmms, vocab_size, AssemblyOutFn, libOk, io)
              ev == Append(events, StageEv("build_hsmm")) \o WriteEvents(r.writes)
          IN  /\ storage' = ApplyWrites(storage, r.writes)
              /\ IF r.err # ""
                 THEN /\ events' = Append(ev, RaiseEv("build_hsmm"))
                      /\ Propagate("build_hsmm", r.err)
                 ELSE /\ events' = ev
                      /\ ret' = Ok(r.val)
                      /\ pc' = "returned"
                      /\ UNCHANGED failedAt
    /\ UNCHANGED <<input, args, call, locals>>

\* After train_hsmm returned, a caller reloads the bundle save_params wrote
\* and calls build_hsmm itself, with or without out_fn; the write may fail.
Call_build_hsmm ==
    /\ pc = "returned"
    /\ pkl_param # ""
    /\ storage[pkl_param].kind = "params" /\ storage[pkl_param].complete
    /\ \E out_fn \in {"", "hsmm.pkl"}, io \in IoOutcomes :
          LET b == storage[pkl_param].content[1]
              r == build_hsmm(b.word_init_probs, b.word_trans_probs,
                              b.word_dur_params, b.word_gmms, vocab_size,
                              out_fn, TRUE, io)
          IN  /\ storage' = ApplyWrites(storage, r.writes)
              /\ ret' = IF r.err # "" THEN Raise(r.err) ELSE Ok(r.val)
    /\ call' = "build_hsmm"
    /\ pc' = "rebuilt"
    /\ UNCHANGED <<input, args, locals, events, failedAt>>

Next ==
    \/ Call_train_hsmm
    \/ Stage_init
    \/ Stage_trans
    \/ Stage_dur
    \/ Stage_gather
    \/ Stage_fit
    \/ Stage_persist
    \/ Stage_build
    \/ Call_build_hsmm

Spec == Init /\ [][Next]_vars

(***************************************************************************)
(* What the estimators are specified to compute, stated from the corpus    *)
(* without the loops of the code.                                          *)
(***************************************************************************)
Words == 0..(vocab_size - 1)

\* The positions <<chain, position>> of the corpus, and those labelled w.
Positions ==
    UNION {{<<c, p>> : p \in 1..Len(data[c].state_seq)} : c \in 1..Len(data)}

Occ(w) == {cp \in Positions : data[cp[1]].state_seq[cp[2]] = w}

SegAt(cp) == data[cp[1]].obs[cp[2]]

RECURSIVE SegLenSum(_)
SegLenSum(S) ==
    IF S = {} THEN 0
    ELSE LET cp == CHOOSE x \in S : TRUE
         IN  Len(SegAt(cp)) + SegLenSum(S \ {cp})

\* The frames <<chain, position, index>> of the segments labelled w.
FramesOf(w) == UNION {{<<cp, k>> : k \in 1..Len(SegAt(cp))} : cp \in Occ(w)}

\* Corpus traversal order: chains, then positions, then frames.
Before(f, g) ==
    \/ f[1][1] < g[1][1]
    \/ f[1][1] = g[1][1] /\ f[1][2] < g[1][2]
    \/ f[1] = g[1] /\ f[2] < g[2]

Rank(f, S) == Cardinality({g \in S : Before(g, f)}) + 1

AllChainsNonEmpty == \A i \in 1..Len(data) : Len(data[i].state_seq) >= 1

NumBigrams == Cardinality({cp \in Positions : cp[2] >= 2})

EveryWordOccurs == \A w \in Words : Occ(w) # {}

NoEmptySegment == \A cp \in Positions : Len(SegAt(cp)) >= 1

(***************************************************************************)
(* C1. train_word_init_probs: on every corpus whose chains all have a      *)
(* non-empty state_seq, the result has length vocab_size and entry w is    *)
(* (number of chains whose first word is w) / vocab_size.                  *)
(***************************************************************************)
C1_InitProbsCountFirstWords ==
    (call = "train_word_init_probs" /\ AllChainsNonEmpty) =>
        /\ ret.err = ""
        /\ Len(ret.val) = vocab_size
        /\ \A w \in Words :
              ret.val[w + 1] =
                  Div(Cardinality({i \in 1..Len(data) : data[i].state_seq[1] = w}),
                      vocab_size)

(***************************************************************************)
(* C2. train_word_trans_probs: on every corpus with at least one bigram    *)
(* (chains of length 0 or 1 included), the result is a vocab_size x        *)
(* vocab_size matrix of non-negative entries that sum to exactly 1.        *)
(***************************************************************************)
C2_TransProbsSumToOne ==
    (call = "train_word_trans_probs" /\ NumBigrams >= 1) =>
        /\ ret.err = ""
        /\ Len(ret.val) = vocab_size
        /\ \A a \in 1..vocab_size :
              /\ Len(ret.val[a]) = vocab_size
              /\ \A b \in 1..vocab_size :
                    IsFinite(ret.val[a][b]) /\ ret.val[a][b].num >= 0
        /\ FracSum(Flatten(ret.val)) = Num(1)

(***************************************************************************)
(* C3. train_word_durations: for every word w with at least one            *)
(* occurrence the rate returned is (sum of the lengths of the segments     *)
(* labelled w) / (number of occurrences of w).                             *)
(***************************************************************************)
C3_DurationIsMean ==
    (call = "train_word_durations") =>
        /\ ret.err = ""
        /\ Len(ret.val) = vocab_size
        /\ \A w \in Words :
              Occ(w) # {} =>
                  ret.val[w + 1] = Div(SegLenSum(Occ(w)), Cardinality(Occ(w)))

C3_Witness ==
    /\ call = "train_word_durations"
    /\ Len(data) = 2
    /\ Cardinality(Occ(0)) = 2
    /\ Occ(1) # {}
    /\ ret.val[1] = [num |-> 3, den |-> 2]

(***************************************************************************)
(* C4, as amended. gather_gmm_data: on every corpus in which every word    *)
(* occurs and every segment holds at least one frame, the matrix of word   *)
(* w is the frames of the segments labelled w in corpus traversal order.   *)
(***************************************************************************)
RowsAreSegmentsOf(w, m) ==
    /\ Len(m) = SegLenSum(Occ(w))
    /\ Len(m) = Cardinality(FramesOf(w))
    /\ \A f \in FramesOf(w) : m[Rank(f, FramesOf(w))] = SegAt(f[1])[f[2]]

C4_GatherConcatenatesNonEmptySegments ==
    (call = "gather_gmm_data" /\ EveryWordOccurs /\ NoEmptySegment) =>
        /\ ret.err = ""
        /\ Len(ret.val) = vocab_size
        /\ \A w \in Words : RowsAreSegmentsOf(w, ret.val[w + 1])

C4_Witness ==
    /\ call = "gather_gmm_data"
    /\ EveryWordOccurs /\ NoEmptySegment
    /\ Len(data) = 2
    /\ \E w \in Words : \E x \in Occ(w), y \in Occ(w) : x[1] # y[1]
    /\ ret.err = ""
    /\ \E k \in 1..vocab_size : Len(ret.val[k]) >= 3

\* C4 as stated: the same for every corpus in which every word occurs.
C4_GatherConcatenatesAllSegments ==
    (call = "gather_gmm_data" /\ EveryWordOccurs) =>
        /\ ret.err = ""
        /\ Len(ret.val) = vocab_size
        /\ \A w \in Words : RowsAreSegmentsOf(w, ret.val[w + 1])

(***************************************************************************)
(* C8, as amended. Scenario A: one chain, state_seq = [0,1,0], segments of *)
(* 1, 2 and 1 frames, vocab_size = 2: the bigram counts are (0->1) = 1 and *)
(* (1->0) = 1, the matrix returned has 1/2 in those two cells, 0 in the    *)
(* others and sums to 1; the durations returned are 1 for word 0 and 2     *)
(* for word 1.                                                             *)
(***************************************************************************)
ScenarioA ==
    MkData(<< <<[w |-> 0, len |-> 1], [w |-> 1, len |-> 2], [w |-> 0, len |-> 1]>> >>)

IsScenarioA == data = ScenarioA /\ vocab_size = 2

ScenarioATransitions ==
    (IsScenarioA /\ call = "train_word_trans_probs") =>
        /\ BigramCounts(data, vocab_size).counts = << <<0, 1>>, <<1, 0>> >>
        /\ ret = Ok(<< <<Num(0), Div(1, 2)>>, <<Div(1, 2), Num(0)>> >>)
        /\ FracSum(Flatten(ret.val)) = Num(1)

C8_ScenarioA_Amended ==
    /\ ScenarioATransitions
    /\ (IsScenarioA /\ call = "train_word_durations") =>
           ret = Ok(<<Num(1), Num(2)>>)

C8_Witness == IsScenarioA /\ call = "train_word_durations" /\ ret.err = ""

\* C8 as stated: the duration of word 1 is 1.
C8_ScenarioA_AsStated ==
    /\ ScenarioATransitions
    /\ (IsScenarioA /\ call = "train_word_durations") =>
           ret = Ok(<<Num(1), Num(1)>>)

(***************************************************************************)
(* The run of train_hsmm as the events show it.                            *)
(***************************************************************************)
IsPrefix(a, b) == Len(a) <= Len(b) /\ \A i \in 1..Len(a) : a[i] = b[i]

IsStage(e) == e.kind = "stage"

IsFit(e) == e.kind = "fit"

StageNames == LET st == SelectSeq(events, IsStage) IN [i \in 1..Len(st) |-> st[i].what]

FitIndices == LET ft == SelectSeq(events, IsFit) IN [i \in 1..Len(ft) |-> ft[i].idx]

EstimationStages ==
    <<"train_word_init_probs", "train_word_trans_probs", "train_word_durations",
      "gather_gmm_data", "train_word_gmms">>

FixedOrder ==
    EstimationStages \o (IF pkl_param # "" THEN <<"save_params">> ELSE <<>>)
                     \o <<"build_hsmm">>

(***************************************************************************)
(* C5. train_hsmm: the stages run in the fixed order initial               *)
(* probabilities, transition probabilities, durations, gathering, fitting, *)
(* (persistence, only with a target), assembly, each once; a run in which  *)
(* none fails runs them all, fits every word once in word order, and       *)
(* returns the model assembled from the outputs of the estimation stages.  *)
(***************************************************************************)
C5_StagesInFixedOrder ==
    /\ IsPrefix(StageNames, FixedOrder)
    /\ pc = "returned" =>
          /\ StageNames = FixedOrder
          /\ FitIndices = [i \in 1..vocab_size |-> i - 1]
          /\ ret.err = ""
          /\ ret.val.init_state_weights = train_word_init_probs(data, vocab_size).val
          /\ ret.val.trans_matrix = train_word_trans_probs(data, vocab_size).val
          /\ ret.val.dur_lmbdas = train_word_durations(data, vocab_size).val
          /\ Len(ret.val.obs_distns) = vocab_size
          /\ \A k \in 1..vocab_size :
                ret.val.obs_distns[k] =
                    [n_components |-> DefaultComponents,
                     n_samples |-> Len(gather_gmm_data(data, vocab_size).val[k])]

C5_Witness ==
    /\ pc = "returned"
    /\ pkl_param = "params.pkl"
    /\ Len(StageNames) = 7
    /\ Len(data) = 2

(***************************************************************************)
(* C6. train_hsmm: an exception raised in a stage is the last thing that   *)
(* happens in the run: no later stage, no notice, no write, no model       *)
(* returned; every file written is a logged write of the run, and a fit    *)
(* that raises leaves every file as it was.                                *)
(***************************************************************************)
Touched(f) == storage[f].kind \in {"params", "hsmm"}

WriteCount == Len(SelectSeq(events, LAMBDA e : e.kind = "write"))

C6_FailureAbortsRun ==
    /\ \A i \in 1..Len(events) :
          events[i].kind = "raise" =>
              /\ i = Len(events)
              /\ pc = "failed"
              /\ failedAt = events[i].what
              /\ ret.err # ""
              /\ ret.val = <<>>
    /\ pc = "failed" => (events # <<>> /\ events[Len(events)].kind = "raise")
    /\ call = "train_hsmm" => Cardinality({f \in Files : Touched(f)}) = WriteCount
    /\ failedAt = "train_word_gmms" => \A f \in Files : ~Touched(f)

C6_Witness ==
    /\ pc = "failed"
    /\ failedAt = "train_word_gmms"
    /\ pkl_param = "params.pkl"
    /\ \E i \in 1..Len(events) : events[i].kind = "fit" /\ events[i].idx = 1
    /\ storage["params.pkl"] = OlderFile

(***************************************************************************)
(* C7, as amended. Scenario B: vocab_size = 3 and a word without           *)
(* occurrences. The run never reaches train_word_gmms; when the chains are *)
(* all non-empty, the duration stage completes with nan for that word and  *)
(* the run fails in gather_gmm_data, which returns no matrix at all.       *)
(***************************************************************************)
ScenarioB == vocab_size = 3 /\ \E w \in Words : Occ(w) = {}

C7_ScenarioB_FailsInGathering ==
    (ScenarioB /\ call = "train_hsmm") =>
        /\ pc \notin {"fit", "persist", "build", "returned"}
        /\ \A i \in 1..Len(StageNames) : StageNames[i] # "train_word_gmms"
        /\ (AllChainsNonEmpty /\ pc \in {"gather", "failed"}) =>
              /\ Len(word_dur_params) = 3
              /\ \A w \in Words : Occ(w) = {} => word_dur_params[w + 1] = NaN
        /\ (AllChainsNonEmpty /\ pc = "failed") =>
              /\ failedAt = "gather_gmm_data"
              /\ train_data_gmm = <<>>

C7_Witness ==
    /\ ScenarioB
    /\ pc = "failed"
    /\ failedAt = "gather_gmm_data"
    /\ \E k \in 1..3 : word_dur_params[k] = NaN
    /\ \E k \in 1..3 : word_dur_params[k] = Num(2)

\* C7 as stated: gathering completes with an empty matrix for the word and the
\* run fails in train_word_gmms.
C7_ScenarioB_AsStated ==
    (ScenarioB /\ call = "train_hsmm" /\ data # <<>> /\ AllChainsNonEmpty
               /\ NoEmptySegment /\ pc = "failed") =>
        /\ \A w \in Words : Occ(w) = {} => word_dur_params[w + 1] = NaN
        /\ failedAt = "train_word_gmms"
        /\ Len(train_data_gmm) = 3
        /\ \A w \in Words : Occ(w) = {} => train_data_gmm[w + 1] = <<>>

(***************************************************************************)
(* C9, as amended. With verbose, the notice of a stage is printed right    *)
(* before the stages initial probabilities, transition probabilities,      *)
(* gathering and fitting, and before each word's fit; none is printed      *)
(* before the duration stage, persistence or assembly; every notice is     *)
(* followed by the start of what it announces (none is printed on          *)
(* failure). Without verbose nothing is printed.                           *)
(***************************************************************************)
NoticedStages ==
    {"train_word_init_probs", "train_word_trans_probs", "gather_gmm_data",
     "train_word_gmms"}

StageNotice(name) ==
    CASE name = "train_word_init_probs" -> "Computing initial word probabilities..."
      [] name = "train_word_trans_probs" -> "Computing word transition probabilities..."
      [] name = "gather_gmm_data" -> "Gathering GMM training data..."
      [] name = "train_word_gmms" -> "Training GMMs..."

C9_NoticesBeforeFourStages ==
    /\ ~verbose => \A i \in 1..Len(events) : events[i].kind # "print"
    /\ verbose =>
          \A i \in 1..Len(events) :
              /\ (IsStage(events[i]) /\ events[i].what \in NoticedStages) =>
                    (i > 1 /\ events[i - 1] = Ev("print", StageNotice(events[i].what), -1))
              /\ IsFit(events[i]) =>
                    (i > 1 /\ events[i - 1] =
                                 Ev("print", "Training GMM for word %d", events[i].idx))
              /\ (IsStage(events[i]) /\ events[i].what \notin NoticedStages) =>
                    (i > 1 /\ events[i - 1].kind # "print")
              /\ events[i].kind = "print" =>
                    (i < Len(events) /\ events[i + 1].kind \in {"stage", "fit"})

C9_Witness ==
    /\ verbose
    /\ pc = "returned"
    /\ pkl_param = "params.pkl"
    /\ Len(SelectSeq(events, LAMBDA e : e.kind = "print")) >= 6

\* C9 as stated: with verbose, a notice is printed before each of the six stages.
C9_NoticeBeforeEveryStage ==
    verbose =>
        \A i \in 1..Len(events) :
            (IsStage(events[i]) /\ events[i].what # "save_params") =>
                (i > 1 /\ events[i - 1].kind = "print")

(***************************************************************************)
(* C10, as amended. A run of train_hsmm calls save_params exactly when     *)
(* pkl_param is given and the five estimation stages succeeded, and        *)
(* writes no file but pkl_param, at most once. When save_params returns,   *)
(* pkl_param holds the bundle of the four raw parameters; when it raises,  *)
(* pkl_param is as it was (open failed) or holds a truncated pickle (the   *)
(* dump failed, older content lost). train_hsmm never writes the           *)
(* assembled model; only a direct call of build_hsmm with out_fn does.     *)
(***************************************************************************)
SaveCalled == \E i \in 1..Len(StageNames) : StageNames[i] = "save_params"

RunOver == pc \in {"returned", "failed"}

FiveStagesSucceeded ==
    IsPrefix(EstimationStages, StageNames) /\ failedAt # "train_word_gmms"

Bundle ==
    [word_init_probs |-> word_init_probs, word_trans_probs |-> word_trans_probs,
     word_dur_params |-> word_dur_params, word_gmms |-> word_gmms]

C10_OnlyRawParamsWritten ==
    /\ call = "train_hsmm" =>
          /\ WriteCount <= 1
          /\ \A f \in Files : Touched(f) => (f = pkl_param /\ SaveCalled)
          /\ SaveCalled => (pkl_param # "" /\ IsPrefix(EstimationStages, StageNames))
          /\ RunOver => (SaveCalled <=> (pkl_param # "" /\ FiveStagesSucceeded))
          /\ (SaveCalled /\ failedAt # "save_params") =>
                storage[pkl_param] = Pickled("params", Bundle)
          /\ failedAt = "save_params" =>
                \/ ~Touched(pkl_param) /\ WriteCount = 0
                \/ storage[pkl_param] = Truncated("params") /\ WriteCount = 1
    /\ \A f \in Files : storage[f].kind = "hsmm" => (call = "build_hsmm" /\ f = "hsmm.pkl")

C10_Witness ==
    /\ pc = "returned"
    /\ verbose
    /\ storage["params.pkl"] = Pickled("params", Bundle)
    /\ storage["hsmm.pkl"] = OlderFile
    /\ Len(word_gmms) = 2

\* C10 as stated: the write of the bundle happens exactly when pkl_param is
\* given and the five preceding stages succeeded.
C10_WriteExactlyWhenStagesSucceed ==
    (call = "train_hsmm" /\ RunOver) =>
        (WriteCount = 1 <=> (pkl_param # "" /\ FiveStagesSucceeded))

=============================================================================
